---- MODULE Spec2Model ----
(***************************************************************************)
(* A model of based-chip8-pp: the CHIP-8 machine state (class              *)
(* Chip8_core::system), the opcode utilities, the instruction functions of *)
(* namespace Chip8_core::Instructions and the cycle driver.                *)
(*                                                                         *)
(* Integers keep the widths of the C++ types: uint8_t values are reduced   *)
(* modulo 2^8 and uint16_t values modulo 2^16 where the code converts to   *)
(* them; intermediate arithmetic is done in int, as integral promotion     *)
(* does.                                                                   *)
(***************************************************************************)
EXTENDS Integers, Sequences, FiniteSets, TLC

VARIABLES
    chip8,    \* the caller's machine: the Chip8_core::system object
    callee,   \* the by-value parameter `system Chip8` of the instruction
              \* function that ran last, as it was when that function returned
    run,      \* "ok", or how the process ended: "exit" (std::exit(1)),
              \* "abort" (a failed assert), "undefined" (undefined behaviour)
    last,     \* what the last call was and what it returned
    phase,    \* "constructed" | "loaded"
    runs,     \* number of Fetch / cycle / fetch_decode_execute calls made
    sets,     \* number of setter calls made
    cycles    \* number of cycle() calls made

vars == <<chip8, callee, run, last, phase, runs, sets, cycles>>

----------------------------------------------------------------------------
(* enum Constants *)
MEMSIZE == 4096
DISPW == 64
DISPH == 32
STACKSIZE == 48
REGCNT == 16
PROGRAM_LD_ADDR == 512
INIT_STACK_TOP == -1
KEYCOUNT == 16
ROM_MAX_SIZE == 3215

(* enum Registers, enum Key, enum Quirks *)
R0 == 0
RF == 15
UP == 0
DOWN == 1
Quirks == {"MATT", "COWGOD"}

(* <cstdint> *)
UINT8_MAX == 255

(* A pixel is a uint32_t RGBA colour, written here as the 32-bit int with  *)
(* the same bits (0xffffffff is -1).  Zero is the all-zero-bytes pixel;    *)
(* foreground and background are the constructor's default arguments.      *)
Zero == 0
foreground == -1
background == 0

U8(n) == n % 256
U16(n) == n % 65536

(* int8_t: the conversion of an out-of-range int wraps modulo 2^8 *)
I8(n) == LET u == n % 256 IN IF u >= 128 THEN u - 256 ELSE u

----------------------------------------------------------------------------
(* Bitwise operators of C++ on non-negative ints *)
RECURSIVE BitAnd(_, _)
BitAnd(a, b) ==
    IF a = 0 \/ b = 0 THEN 0
    ELSE (a % 2) * (b % 2) + 2 * BitAnd(a \div 2, b \div 2)

RECURSIVE BitOr(_, _)
BitOr(a, b) ==
    IF a = 0 THEN b
    ELSE IF b = 0 THEN a
    ELSE (IF a % 2 = 1 \/ b % 2 = 1 THEN 1 ELSE 0) + 2 * BitOr(a \div 2, b \div 2)

RECURSIVE BitXor(_, _)
BitXor(a, b) ==
    IF a = 0 THEN b
    ELSE IF b = 0 THEN a
    ELSE ((a + b) % 2) + 2 * BitXor(a \div 2, b \div 2)

Shl(a, n) == a * (2 ^ n)
Shr(a, n) == a \div (2 ^ n)

----------------------------------------------------------------------------
(* Opcode utilities.  The argument is a uint16_t; the shifts are done on   *)
(* the promoted int (no bits are lost on the left) and the result is       *)
(* converted to the uint8_t return type.                                   *)

nibble2byte_swapped(un, ln) == U8(BitOr(Shl(ln, 4), un))

nibble2byte(un, ln) == U8(BitOr(Shl(un, 4), ln))

fetch_nib1(opcode) == U8(Shr(opcode, 12))

fetch_nib2(opcode) == U8(Shr(Shl(opcode, 4), 8))

fetch_nib3(opcode) == U8(Shr(Shl(opcode, 8), 12))

fetch_nib4(opcode) == U8(Shr(Shl(opcode, 12), 12))

(* the 12-bit operand as jmp, load_idxreg_addr and jmpreg recompose it *)
OperandAddr(opcode) ==
    BitOr(Shl(fetch_nib2(opcode), 8),
          nibble2byte(fetch_nib3(opcode), fetch_nib4(opcode)))

----------------------------------------------------------------------------
(* class system *)

Font ==
    << 240, 144, 144, 144, 240,   32,  96,  32,  32, 112,
       240,  16, 240, 128, 240,  240,  16, 240,  16, 240,
       144, 144, 240,  16,  16,  240, 128, 240,  16, 240,
       240, 128, 240, 144, 240,  240,  16,  32,  64,  64,
       240, 144, 240, 144, 240,  240, 144, 240,  16, 240,
       240, 144, 240, 144, 144,  224, 144, 224, 144, 224,
       240, 128, 128, 128, 240,  224, 144, 144, 144, 224,
       240, 128, 240, 128, 240,  240, 128, 240, 128, 128 >>

(* system::system: the font at address 0, the rest of the memory zero, the *)
(* program counter at the load address, the stack empty.  `seed` is what   *)
(* the std::random_device returned.                                       *)
Construct(seed) ==
    [ memory          |-> [a \in 0..(MEMSIZE - 1) |->
                             IF a < Len(Font) THEN Font[a + 1] ELSE 0],
      display         |-> [i \in 0..(DISPW * DISPH - 1) |-> Zero],
      stack           |-> [i \in 0..(STACKSIZE - 1) |-> 0],
      registers       |-> [r \in 0..(REGCNT - 1) |-> 0],
      keys            |-> [k \in 0..(KEYCOUNT - 1) |-> UP],
      index_reg       |-> 0,
      program_counter |-> PROGRAM_LD_ADDR,
      delay_timer     |-> 0,
      sound_timer     |-> 0,
      stacktop        |-> INIT_STACK_TOP,
      engine          |-> seed,
      display_fg      |-> foreground,
      display_bg      |-> background ]

(* What a call leaves behind: the machine it worked on, and whether the    *)
(* process goes on ("ok"), ended in std::exit(1) ("exit"), ended in a      *)
(* failed assert ("abort"), or ran into undefined behaviour ("undefined":  *)
(* every outcome is possible, none is promised).                           *)
Done(m) == [m |-> m, st |-> "ok"]
Exits(m) == [m |-> m, st |-> "exit"]
Undefined(m) == [m |-> m, st |-> "undefined"]

(* Valid subscripts of the std::array / std::bitset members; operator[] of *)
(* these containers does not check, any other subscript is undefined.      *)
MemIdx == 0..(MEMSIZE - 1)
RegIdx == 0..(REGCNT - 1)
KeyIdx == 0..(KEYCOUNT - 1)
StackIdx == 0..(STACKSIZE - 1)
DispIdx == 0..(DISPW * DISPH - 1)

(* system::LoadRom, for a regular file that exists and opens, holding      *)
(* `bytes`: the size check, then the read into memory at the load address. *)
LoadRomAccepts(size) == ~(size >= ROM_MAX_SIZE)

LoadRom(m, bytes) ==
    IF ~LoadRomAccepts(Len(bytes)) THEN Exits(m)
    ELSE Done([m EXCEPT !.memory =
                 [a \in MemIdx |->
                    IF a >= PROGRAM_LD_ADDR /\ a < PROGRAM_LD_ADDR + Len(bytes)
                    THEN bytes[a - PROGRAM_LD_ADDR + 1]
                    ELSE m.memory[a]]])

(* system::Fetch.  FetchOpcode is the value returned, FetchPC the program  *)
(* counter afterwards; FetchDefined says both bytes are inside memory.     *)
FetchDefined(m) ==
    m.program_counter \in MemIdx /\ (m.program_counter + 1) \in MemIdx

FetchOpcode_littleendian(m) ==
    U16(BitOr(Shl(m.memory[m.program_counter + 1], 8),
              m.memory[m.program_counter]))

FetchOpcode(m) ==
    U16(BitOr(Shl(m.memory[m.program_counter], 8),
              m.memory[m.program_counter + 1]))

FetchPC(m) == U16(m.program_counter + 2)

Fetch(m) ==
    IF FetchDefined(m)
    THEN [m |-> [m EXCEPT !.program_counter = FetchPC(m)], st |-> "ok",
          ret |-> FetchOpcode(m)]
    ELSE [m |-> m, st |-> "undefined", ret |-> 0]

(* system::SetRegister / GetRegister *)
SetRegister(m, r, v) == [m EXCEPT !.registers[r] = U8(v)]
GetRegister(m, r) == m.registers[r]

(* system::SetIndexRegister / GetIndexRegister *)
SetIndexRegister(m, v) == [m EXCEPT !.index_reg = U16(v)]
GetIndexRegister(m) == m.index_reg

(* system::SetKey / GetKey *)
SetKey(m, k, v) == [m EXCEPT !.keys[k] = IF v = 0 THEN UP ELSE DOWN]
GetKey(m, k) == m.keys[k]

(* system::SetPC / GetPC *)
SetPC(m, v) == [m EXCEPT !.program_counter = U16(v)]
GetPC(m) == m.program_counter

(* system::SetDT / GetDT / DecDT, SetST / GetST / DecST *)
SetDT(m, v) == [m EXCEPT !.delay_timer = U8(v)]
GetDT(m) == m.delay_timer
DecDT(m) == [m EXCEPT !.delay_timer = U8(m.delay_timer + 256 - 1)]
SetST(m, v) == [m EXCEPT !.sound_timer = U8(v)]
GetST(m) == m.sound_timer
DecST(m) == [m EXCEPT !.sound_timer = U8(m.sound_timer + 256 - 1)]

(* system::Push: stack[++stacktop] = v *)
PushDefined(m) == I8(m.stacktop + 1) \in StackIdx
Push(m, v) ==
    LET top == I8(m.stacktop + 1)
    IN  [m EXCEPT !.stacktop = top, !.stack[top] = U16(v)]

(* system::Pop: return stack[stacktop--] *)
Pop_nodecrement(m) == m

PopDefined(m) == m.stacktop \in StackIdx
PopValue(m) == m.stack[m.stacktop]
Pop(m) == [m EXCEPT !.stacktop = I8(m.stacktop - 1)]

(* system::SetPixel / GetPixel *)
SetPixel(m, idx, v) == [m EXCEPT !.display[idx] = v]
GetPixel(m, idx) == m.display[idx]

(* system::operator[](long i): which of the two exits is taken, or "ok"    *)
(* when the reference to memory[i] is returned.                            *)
Subscript(i) ==
    IF i > 0 THEN "exit"
    ELSE IF i < (MEMSIZE + 1) THEN "exit"
    ELSE "ok"

(* system::reset_display: memset of DISPH * DISPW bytes over an array of   *)
(* 4-byte pixels.                                                          *)
PixelBytes == 4
reset_display(m) ==
    [m EXCEPT !.display =
        [i \in DispIdx |->
           IF i * PixelBytes + (PixelBytes - 1) < DISPH * DISPW THEN Zero
           ELSE m.display[i]]]

(* system::reset_keys *)
reset_keys(m) == [m EXCEPT !.keys = [k \in KeyIdx |-> UP]]

(* system::InternalRand: std::minstd_rand0 (std::default_random_engine of  *)
(* libstdc++) drawn through uniform_int_distribution<int>{0, 255}.         *)
EngineMul == 16807
EngineMod == 2147483647
(* x * EngineMul mod EngineMod, computed without leaving 31 bits *)
EngineNext(x) ==
    LET q == EngineMod \div EngineMul
        r == EngineMod % EngineMul
        t == EngineMul * (x % q) - r * (x \div q)
    IN  IF t < 0 THEN t + EngineMod ELSE t
RandScale == (EngineMod - 2) \div 256
RECURSIVE RandDraw(_)
RandDraw(x) ==
    LET y == EngineNext(x)
        r == (y - 1) \div RandScale
    IN  IF r < 256 THEN [engine |-> y, value |-> r] ELSE RandDraw(y)
InternalRandValue(m) == U8(RandDraw(m.engine).value)
InternalRand(m) == [m EXCEPT !.engine = RandDraw(m.engine).engine]

----------------------------------------------------------------------------
(* namespace Instructions.  Every function takes `system Chip8` by value:  *)
(* each operator below gives the final state of that parameter object, and *)
(* how the call ended.  X and Y are what the code uses as register         *)
(* subscripts, fetch_nib2(opcode) and fetch_nib3(opcode); a subscript      *)
(* outside the array is undefined behaviour.                               *)

NN(opcode) == nibble2byte(fetch_nib3(opcode), fetch_nib4(opcode))

sys_addr(opcode, Chip8) == Done(Chip8)

cls(Chip8) == Done(reset_display(Chip8))

ret(Chip8) ==
    IF ~PopDefined(Chip8) THEN Undefined(Chip8)
    ELSE Done(SetPC(Pop(Chip8), PopValue(Chip8)))

jmp(opcode, Chip8) == Done(SetPC(Chip8, OperandAddr(opcode)))

(* call passes its own machine on to jmp, again by value: what is left in  *)
(* call's machine is the push.                                             *)
call(opcode, Chip8) ==
    IF ~PushDefined(Chip8) THEN Undefined(Chip8)
    ELSE LET c1 == Push(Chip8, GetPC(Chip8))
             inner == jmp(opcode, c1)
         IN  [m |-> IF inner.st = "ok" THEN c1 ELSE inner.m, st |-> inner.st]

skip_eq(opcode, Chip8) ==
    LET rx == fetch_nib2(opcode)
    IN  IF rx \notin RegIdx THEN Undefined(Chip8)
        ELSE IF GetRegister(Chip8, rx) = NN(opcode)
             THEN Done(SetPC(Chip8, GetPC(Chip8) + 2))
             ELSE Done(Chip8)

skip_noteq(opcode, Chip8) ==
    LET rx == fetch_nib2(opcode)
    IN  IF rx \notin RegIdx THEN Undefined(Chip8)
        ELSE IF GetRegister(Chip8, rx) # NN(opcode)
             THEN Done(SetPC(Chip8, GetPC(Chip8) + 2))
             ELSE Done(Chip8)

skip_xyeq(opcode, Chip8) ==
    LET rx == fetch_nib2(opcode)
        ry == fetch_nib3(opcode)
    IN  IF rx \notin RegIdx \/ ry \notin RegIdx THEN Undefined(Chip8)
        ELSE IF GetRegister(Chip8, rx) = GetRegister(Chip8, ry)
             THEN Done(SetPC(Chip8, GetPC(Chip8) + 2))
             ELSE Done(Chip8)

load(opcode, Chip8) ==
    LET rx == fetch_nib2(opcode)
    IN  IF rx \notin RegIdx THEN Undefined(Chip8)
        ELSE Done(SetRegister(Chip8, rx, NN(opcode)))

add(opcode, Chip8) ==
    LET rx == fetch_nib2(opcode)
    IN  IF rx \notin RegIdx THEN Undefined(Chip8)
        ELSE Done(SetRegister(Chip8, rx, GetRegister(Chip8, rx) + NN(opcode)))

load_reg(opcode, Chip8) ==
    LET rx == fetch_nib2(opcode)
        ry == fetch_nib3(opcode)
    IN  IF rx \notin RegIdx \/ ry \notin RegIdx THEN Undefined(Chip8)
        ELSE Done(SetRegister(Chip8, rx, GetRegister(Chip8, ry)))

regor(opcode, Chip8) ==
    LET rx == fetch_nib2(opcode)
        ry == fetch_nib3(opcode)
    IN  IF rx \notin RegIdx \/ ry \notin RegIdx THEN Undefined(Chip8)
        ELSE Done(SetRegister(Chip8, rx,
                 BitOr(GetRegister(Chip8, rx), GetRegister(Chip8, ry))))

regand(opcode, Chip8) ==
    LET rx == fetch_nib2(opcode)
        ry == fetch_nib3(opcode)
    IN  IF rx \notin RegIdx \/ ry \notin RegIdx THEN Undefined(Chip8)
        ELSE Done(SetRegister(Chip8, rx,
                 BitAnd(GetRegister(Chip8, rx), GetRegister(Chip8, ry))))

regxor(opcode, Chip8) ==
    LET rx == fetch_nib2(opcode)
        ry == fetch_nib3(opcode)
    IN  IF rx \notin RegIdx \/ ry \notin RegIdx THEN Undefined(Chip8)
        ELSE Done(SetRegister(Chip8, rx,
                 BitXor(GetRegister(Chip8, rx), GetRegister(Chip8, ry))))

regaddc(opcode, Chip8) ==
    LET rx == fetch_nib2(opcode)
        ry == fetch_nib3(opcode)
        c0 == SetRegister(Chip8, RF, 0)
    IN  IF rx \notin RegIdx \/ ry \notin RegIdx THEN Undefined(c0)
        ELSE LET c1 == IF UINT8_MAX - GetRegister(c0, rx) < GetRegister(c0, ry)
                       THEN SetRegister(c0, RF, 1)
                       ELSE c0
             IN  Done(SetRegister(c1, rx,
                        GetRegister(c1, rx) + GetRegister(c1, ry)))

regsubc(opcode, Chip8) ==
    LET rx == fetch_nib2(opcode)
        ry == fetch_nib3(opcode)
        c0 == SetRegister(Chip8, RF, 0)
    IN  IF rx \notin RegIdx \/ ry \notin RegIdx THEN Undefined(c0)
        ELSE LET c1 == IF GetRegister(c0, rx) > GetRegister(c0, ry)
                       THEN SetRegister(c0, RF, 1)
                       ELSE c0
             IN  Done(SetRegister(c1, rx,
                        256 + GetRegister(c1, rx) - GetRegister(c1, ry)))

(* the lambda `shift` of regshift_right: RF from bit 0 of to_shift, then   *)
(* RX := to_shift >> shift_cnt                                             *)
shift_right(c0, rx, to_shift, shift_cnt) ==
    LET c1 == IF BitAnd(GetRegister(c0, to_shift), 1) # 0
              THEN SetRegister(c0, RF, 1)
              ELSE c0
    IN  SetRegister(c1, rx, Shr(GetRegister(c1, to_shift), shift_cnt))

regshift_right(mode, opcode, Chip8) ==
    LET rx == fetch_nib2(opcode)
        ry == fetch_nib3(opcode)
        c0 == SetRegister(Chip8, RF, 0)
    IN  IF mode = "MATT"
        THEN IF rx \notin RegIdx \/ ry \notin RegIdx THEN Undefined(c0)
             ELSE Done(shift_right(c0, rx, ry, 1))
        ELSE IF mode = "COWGOD"
        THEN IF rx \notin RegIdx THEN Undefined(c0)
             ELSE Done(shift_right(c0, rx, rx, 1))
        ELSE Done(c0)

regsubc_reverse(opcode, Chip8) ==
    LET rx == fetch_nib2(opcode)
        ry == fetch_nib3(opcode)
        c0 == SetRegister(Chip8, RF, 0)
    IN  IF rx \notin RegIdx \/ ry \notin RegIdx THEN Undefined(c0)
        ELSE LET c1 == IF GetRegister(c0, rx) < GetRegister(c0, ry)
                       THEN SetRegister(c0, RF, 1)
                       ELSE c0
             IN  Done(SetRegister(c1, rx,
                        256 + GetRegister(c1, ry) - GetRegister(c1, rx)))

(* the lambda `shift` of regshift_left: RF from bit 7 of to_shift, then    *)
(* RX := to_shift << shift_cnt, converted to uint8_t                       *)
shift_left(c0, rx, to_shift, shift_cnt) ==
    LET c1 == IF BitAnd(GetRegister(c0, to_shift), 128) # 0
              THEN SetRegister(c0, RF, 1)
              ELSE c0
    IN  SetRegister(c1, rx, Shl(GetRegister(c1, to_shift), shift_cnt))

regshift_left(mode, opcode, Chip8) ==
    LET rx == fetch_nib2(opcode)
        ry == fetch_nib3(opcode)
        c0 == SetRegister(Chip8, RF, 0)
    IN  IF mode = "MATT"
        THEN IF rx \notin RegIdx \/ ry \notin RegIdx THEN Undefined(c0)
             ELSE Done(shift_left(c0, rx, ry, 1))
        ELSE IF mode = "COWGOD"
        THEN IF rx \notin RegIdx THEN Undefined(c0)
             ELSE Done(shift_left(c0, rx, rx, 1))
        ELSE Done(c0)

skip_regnoteq(opcode, Chip8) ==
    LET rx == fetch_nib2(opcode)
        ry == fetch_nib3(opcode)
    IN  IF rx \notin RegIdx \/ ry \notin RegIdx THEN Undefined(Chip8)
        ELSE IF GetRegister(Chip8, rx) # GetRegister(Chip8, ry)
             THEN Done(SetPC(Chip8, GetPC(Chip8) + 2))
             ELSE Done(Chip8)

load_idxreg_addr(opcode, Chip8) ==
    Done(SetIndexRegister(Chip8, OperandAddr(opcode)))

jmpreg(opcode, Chip8) ==
    Done(SetPC(Chip8, GetRegister(Chip8, R0) + U16(OperandAddr(opcode))))

genrandom(opcode, Chip8) ==
    LET rx == fetch_nib2(opcode)
    IN  IF rx \notin RegIdx THEN Undefined(Chip8)
        ELSE Done(SetRegister(InternalRand(Chip8), rx,
                    BitAnd(InternalRandValue(Chip8), NN(opcode))))

(* draw: the inner loop over the 8 columns of one sprite row.  val_x is    *)
(* the uint8_t the loop keeps adding col to; the result carries it on.     *)
RECURSIVE draw_cols(_, _, _, _, _)
draw_cols(m, sprite, val_x, val_y, col) ==
    IF ~(col < 8) THEN [m |-> m, val_x |-> val_x]
    ELSE LET x == U8(val_x + col)
             idx == x + val_y * DISPW
         IN  IF x >= DISPW THEN [m |-> m, val_x |-> x]
             ELSE IF BitAnd(sprite, Shr(128, col)) # 0
             THEN IF GetPixel(m, idx) # Zero
                  THEN draw_cols(SetRegister(SetPixel(m, idx, m.display_bg), RF, 1),
                                 sprite, x, val_y, col + 1)
                  ELSE draw_cols(SetPixel(m, idx, m.display_fg),
                                 sprite, x, val_y, col + 1)
             ELSE draw_cols(m, sprite, x, val_y, col + 1)

(* draw: the outer loop over the N sprite rows; the sprite byte is read    *)
(* through system::operator[].                                             *)
RECURSIVE draw_rows(_, _, _, _, _)
draw_rows(m, N, val_x, val_y, rows) ==
    IF ~(rows < N) THEN Done(m)
    ELSE LET i == GetIndexRegister(m) + rows
         IN  IF Subscript(i) # "ok" THEN Exits(m)
             ELSE IF i \notin MemIdx THEN Undefined(m)
             ELSE LET y == U8(val_y + rows)
                  IN  IF y >= DISPH THEN Done(m)
                      ELSE LET r == draw_cols(m, m.memory[i], val_x, y, 0)
                           IN  draw_rows(r.m, N, r.val_x, y, rows + 1)

draw(opcode, Chip8) ==
    LET rx == fetch_nib2(opcode)
        ry == fetch_nib3(opcode)
        N == fetch_nib4(opcode)
    IN  IF rx \notin RegIdx \/ ry \notin RegIdx THEN Undefined(Chip8)
        ELSE draw_rows(SetRegister(Chip8, RF, 0), N,
                       BitAnd(GetRegister(Chip8, rx), 63),
                       BitAnd(GetRegister(Chip8, ry), 31), 0)

skip_ifkeypress(opcode, Chip8) ==
    LET rx == fetch_nib2(opcode)
    IN  IF rx \notin RegIdx THEN Undefined(Chip8)
        ELSE IF GetRegister(Chip8, rx) \notin KeyIdx THEN Undefined(Chip8)
        ELSE IF GetKey(Chip8, GetRegister(Chip8, rx)) = DOWN
             THEN Done(SetPC(Chip8, GetPC(Chip8) + 2))
             ELSE Done(Chip8)

skip_ifkeynotpress(opcode, Chip8) ==
    LET rx == fetch_nib2(opcode)
    IN  IF rx \notin RegIdx THEN Undefined(Chip8)
        ELSE IF GetRegister(Chip8, rx) \notin KeyIdx THEN Undefined(Chip8)
        ELSE IF GetKey(Chip8, GetRegister(Chip8, rx)) = UP
             THEN Done(SetPC(Chip8, GetPC(Chip8) + 2))
             ELSE Done(Chip8)

load_dt_to_reg_ticking(opcode, Chip8) ==
    LET rx == fetch_nib2(opcode)
    IN  IF rx \notin RegIdx THEN Undefined(Chip8)
        ELSE Done(DecDT(SetRegister(Chip8, rx, GetDT(Chip8))))

load_dt_to_reg(opcode, Chip8) ==
    LET rx == fetch_nib2(opcode)
    IN  IF rx \notin RegIdx THEN Undefined(Chip8)
        ELSE Done(SetRegister(Chip8, rx, GetDT(Chip8)))

(* load_key: the scan of the 16 keys, from key i on *)
RECURSIVE load_key_scan(_, _, _)
load_key_scan(m, rx, i) ==
    IF ~(i <= 15) THEN m
    ELSE IF GetKey(m, i) = DOWN
         THEN load_key_scan(SetPC(SetRegister(m, rx, i), GetPC(m) + 2), rx, i + 1)
         ELSE load_key_scan(m, rx, i + 1)

load_key(opcode, Chip8) ==
    LET rx == fetch_nib2(opcode)
    IN  IF rx \notin RegIdx THEN Undefined(Chip8)
        ELSE Done(load_key_scan(SetPC(Chip8, 65536 + GetPC(Chip8) - 2), rx, 0))

set_dt(opcode, Chip8) ==
    LET rx == fetch_nib2(opcode)
    IN  IF rx \notin RegIdx THEN Undefined(Chip8)
        ELSE Done(SetDT(Chip8, GetRegister(Chip8, rx)))

set_st(opcode, Chip8) ==
    LET rx == fetch_nib2(opcode)
    IN  IF rx \notin RegIdx THEN Undefined(Chip8)
        ELSE Done(SetST(Chip8, GetRegister(Chip8, rx)))

radd_idx(opcode, Chip8) ==
    LET rx == fetch_nib2(opcode)
    IN  IF rx \notin RegIdx THEN Undefined(Chip8)
        ELSE Done(SetIndexRegister(Chip8,
                    GetIndexRegister(Chip8) + GetRegister(Chip8, rx)))

sprite(opcode, Chip8) ==
    LET rx == fetch_nib2(opcode)
    IN  IF rx \notin RegIdx THEN Undefined(Chip8)
        ELSE Done(SetIndexRegister(Chip8, (GetRegister(Chip8, rx) % 16) * 5))

(* decode_bcd: three stores through system::operator[] *)
decode_bcd(opcode, Chip8) ==
    LET rx == fetch_nib2(opcode)
        I == GetIndexRegister(Chip8)
    IN  IF rx \notin RegIdx THEN Undefined(Chip8)
        ELSE LET num == GetRegister(Chip8, rx)
             IN  IF Subscript(I + 2) # "ok" THEN Exits(Chip8)
                 ELSE IF Subscript(I + 1) # "ok" THEN Exits(Chip8)
                 ELSE IF Subscript(I) # "ok" THEN Exits(Chip8)
                 ELSE IF (I + 2) \notin MemIdx THEN Undefined(Chip8)
                 ELSE Done([Chip8 EXCEPT
                              !.memory[I + 2] = num % 10,
                              !.memory[I + 1] = (num \div 10) % 10,
                              !.memory[I] = (num \div 10) \div 10])

(* std::copy_n(first, count, result) over the two arrays: defined when     *)
(* both ranges lie inside their arrays.                                    *)
copy_n_defined(Chip8, count) ==
    count <= REGCNT /\ GetIndexRegister(Chip8) + count <= MEMSIZE

load_reg_into_memory(mode, opcode, Chip8) ==
    LET last_reg == fetch_nib2(opcode)
        I == GetIndexRegister(Chip8)
    IN  IF ~copy_n_defined(Chip8, last_reg) THEN Undefined(Chip8)
        ELSE LET c1 == [Chip8 EXCEPT !.memory =
                          [a \in MemIdx |->
                             IF a >= I /\ a < I + last_reg
                             THEN Chip8.registers[a - I]
                             ELSE Chip8.memory[a]]]
             IN  IF mode = "MATT"
                 THEN Done(SetIndexRegister(c1, I + last_reg + 1))
                 ELSE Done(c1)

load_memory_into_reg(mode, opcode, Chip8) ==
    LET last_reg == fetch_nib2(opcode)
        I == GetIndexRegister(Chip8)
    IN  IF ~copy_n_defined(Chip8, last_reg) THEN Undefined(Chip8)
        ELSE LET c1 == [Chip8 EXCEPT !.registers =
                          [r \in RegIdx |->
                             IF r < last_reg THEN Chip8.memory[I + r]
                             ELSE Chip8.registers[r]]]
             IN  IF mode = "MATT"
                 THEN Done(SetIndexRegister(c1, I + last_reg + 1))
                 ELSE Done(c1)

----------------------------------------------------------------------------
(* Calling an instruction function.                                        *)

InstructionNames ==
    { "sys_addr", "cls", "ret", "jmp", "call", "skip_eq", "skip_noteq",
      "skip_xyeq", "load", "add", "load_reg", "regor", "regand", "regxor",
      "regaddc", "regsubc", "regshift_right", "regsubc_reverse",
      "regshift_left", "skip_regnoteq", "load_idxreg_addr", "jmpreg",
      "genrandom", "draw", "skip_ifkeypress", "skip_ifkeynotpress",
      "load_dt_to_reg", "load_key", "set_dt", "set_st", "regadd_idx",
      "sprite", "decode_bcd", "load_reg_into_memory", "load_memory_into_reg" }

(* The body that runs for each declared name.  regadd_idx is declared and  *)
(* called by cycle(); the header defines it under the name radd_idx.       *)
Apply(name, mode, opcode, Chip8) ==
    CASE name = "sys_addr" -> sys_addr(opcode, Chip8)
      [] name = "cls" -> cls(Chip8)
      [] name = "ret" -> ret(Chip8)
      [] name = "jmp" -> jmp(opcode, Chip8)
      [] name = "call" -> call(opcode, Chip8)
      [] name = "skip_eq" -> skip_eq(opcode, Chip8)
      [] name = "skip_noteq" -> skip_noteq(opcode, Chip8)
      [] name = "skip_xyeq" -> skip_xyeq(opcode, Chip8)
      [] name = "load" -> load(opcode, Chip8)
      [] name = "add" -> add(opcode, Chip8)
      [] name = "load_reg" -> load_reg(opcode, Chip8)
      [] name = "regor" -> regor(opcode, Chip8)
      [] name = "regand" -> regand(opcode, Chip8)
      [] name = "regxor" -> regxor(opcode, Chip8)
      [] name = "regaddc" -> regaddc(opcode, Chip8)
      [] name = "regsubc" -> regsubc(opcode, Chip8)
      [] name = "regshift_right" -> regshift_right(mode, opcode, Chip8)
      [] name = "regsubc_reverse" -> regsubc_reverse(opcode, Chip8)
      [] name = "regshift_left" -> regshift_left(mode, opcode, Chip8)
      [] name = "skip_regnoteq" -> skip_regnoteq(opcode, Chip8)
      [] name = "load_idxreg_addr" -> load_idxreg_addr(opcode, Chip8)
      [] name = "jmpreg" -> jmpreg(opcode, Chip8)
      [] name = "genrandom" -> genrandom(opcode, Chip8)
      [] name = "draw" -> draw(opcode, Chip8)
      [] name = "skip_ifkeypress" -> skip_ifkeypress(opcode, Chip8)
      [] name = "skip_ifkeynotpress" -> skip_ifkeynotpress(opcode, Chip8)
      [] name = "load_dt_to_reg" -> load_dt_to_reg(opcode, Chip8)
      [] name = "load_key" -> load_key(opcode, Chip8)
      [] name = "set_dt" -> set_dt(opcode, Chip8)
      [] name = "set_st" -> set_st(opcode, Chip8)
      [] name = "regadd_idx" -> radd_idx(opcode, Chip8)
      [] name = "sprite" -> sprite(opcode, Chip8)
      [] name = "decode_bcd" -> decode_bcd(opcode, Chip8)
      [] name = "load_reg_into_memory" -> load_reg_into_memory(mode, opcode, Chip8)
      [] name = "load_memory_into_reg" -> load_memory_into_reg(mode, opcode, Chip8)

(* The parameter is `system Chip8`, an object of its own, copy-constructed *)
(* from the argument: the caller's object is what it was before the call.  *)
CallerAfter(caller, result) == caller

----------------------------------------------------------------------------
(* The switch of the closure fetch_decode_execute in cycle(): the          *)
(* statements control passes through for `opcode`, in order.  "assert" is  *)
(* the assert of case 0x9; every other entry is a call of the instruction  *)
(* function of that name.  A case whose last statement is not a break      *)
(* continues into the next case.                                           *)

Case0(opcode) ==
    (IF NN(opcode) = 224 THEN <<"cls">>
     ELSE IF NN(opcode) = 238 THEN <<"ret">>
     ELSE <<>>)

Case8(opcode) ==
    LET n == fetch_nib4(opcode)
    IN  CASE n = 0 -> <<"load_reg">>
          [] n = 1 -> <<"regor">>
          [] n = 2 -> <<"regand">>
          [] n = 3 -> <<"regxor">>
          [] n = 4 -> <<"regaddc">>
          [] n = 5 -> <<"regsubc">>
          [] n = 6 -> <<"regshift_right">>
          [] n = 7 -> <<"regsubc_reverse">>
          [] n = 14 -> <<"regshift_left">>
          [] OTHER -> <<>>

Case9 == <<"assert", "load_idxreg_addr">>

CaseE(opcode) ==
    (IF NN(opcode) = 158 THEN <<"skip_ifkeypress">>
     ELSE IF NN(opcode) = 161 THEN <<"skip_ifkeynotpress">>
     ELSE <<>>)

CaseF(opcode) ==
    LET b == NN(opcode)
    IN  CASE b = 7 -> <<"load_dt_to_reg">>
          [] b = 10 -> <<"load_key">>
          [] b = 21 -> <<"set_dt">>
          [] b = 24 -> <<"set_st">>
          [] b = 30 -> <<"regadd_idx">>
          [] b = 41 -> <<"sprite">>
          [] b = 51 -> <<"decode_bcd">>
          [] b = 85 -> <<"load_reg_into_memory">>
          [] b = 101 -> <<"load_memory_into_reg">>
          [] OTHER -> <<>>

Dispatch(opcode) ==
    LET n == fetch_nib1(opcode)
    IN  CASE n = 0 -> Case0(opcode) \o <<"jmp">>
          [] n = 1 -> <<"jmp">>
          [] n = 2 -> <<"call">>
          [] n = 3 -> <<"skip_eq">>
          [] n = 4 -> <<"skip_noteq">>
          [] n = 5 -> <<"skip_xyeq">>
          [] n = 6 -> <<"load">>
          [] n = 7 -> <<"add">>
          [] n = 8 -> Case8(opcode) \o Case9
          [] n = 9 -> Case9
          [] n = 10 -> <<"load_idxreg_addr">>
          [] n = 11 -> <<"jmpreg">>
          [] n = 12 -> <<"genrandom">>
          [] n = 13 -> <<"draw">>
          [] n = 14 -> CaseE(opcode)
          [] n = 15 -> CaseF(opcode)
          [] OTHER -> <<>>

(* assert(in::fetch_nib4(opcode) == 0): with NDEBUG defined the macro      *)
(* expands to nothing; otherwise a false condition aborts the process.     *)
AssertPasses(ndebug, opcode) == ndebug \/ fetch_nib4(opcode) = 0

(* Running the statements of Dispatch(opcode) from the i-th on, on the     *)
(* caller's machine `m`.  acc holds what has happened so far: the          *)
(* parameter object of the last instruction function that ran, how the     *)
(* process stands, and the names of the functions that ran.                *)
RECURSIVE RunSteps(_, _, _, _, _, _, _)
RunSteps(steps, i, mode, opcode, m, ndebug, acc) ==
    IF i > Len(steps) \/ acc.st # "ok" THEN [acc EXCEPT !.m = m]
    ELSE IF steps[i] = "assert"
    THEN IF AssertPasses(ndebug, opcode)
         THEN RunSteps(steps, i + 1, mode, opcode, m, ndebug, acc)
         ELSE [acc EXCEPT !.m = m, !.st = "abort"]
    ELSE LET r == Apply(steps[i], mode, opcode, m)
         IN  RunSteps(steps, i + 1, mode, opcode, CallerAfter(m, r), ndebug,
                      [callee |-> r.m, st |-> r.st,
                       executed |-> Append(acc.executed, steps[i]), m |-> m])

(* The body of the closure: one Fetch on the captured machine, then the    *)
(* switch.                                                                 *)
fetch_decode_execute(mode, m, ndebug, callee0) ==
    LET f == Fetch(m)
    IN  IF f.st # "ok"
        THEN [m |-> f.m, callee |-> callee0, st |-> f.st, executed |-> <<>>,
              opcode |-> f.ret, fetches |-> 1]
        ELSE LET r == RunSteps(Dispatch(f.ret), 1, mode, f.ret, f.m, ndebug,
                               [callee |-> callee0, st |-> "ok",
                                executed |-> <<>>, m |-> f.m])
             IN  [m |-> r.m, callee |-> r.callee, st |-> r.st,
                  executed |-> r.executed, opcode |-> f.ret, fetches |-> 1]

(* cycle(chip8, mode): the function builds the closure and returns; the    *)
(* closure is not invoked.                                                 *)
cycle(mode, m, ndebug, callee0) ==
    [m |-> m, callee |-> callee0, st |-> "ok", executed |-> <<>>,
     opcode |-> 0, fetches |-> 0]

----------------------------------------------------------------------------
(* The session: a machine is constructed, a ROM is loaded, and the caller  *)
(* then sets registers, keys and the program counter through the public    *)
(* setters and calls Fetch, cycle and (the body of) fetch_decode_execute.  *)

MaxRuns == 2
MaxSets == 1

Seeds == {1}

(* a file of n zero bytes *)
Zeros(n) == [i \in 1..n |-> 0]

(* the big-endian bytes of one instruction word *)
WordBytes(w) == <<w \div 256, w % 256>>

ScenarioRom == <<96, 10, 112, 5>>

DispatchWords ==
    { 0, 224, 238,                  \* 0000 00E0 00EE
      4660, 9029,                   \* 1234 2345
      12288, 16385, 20480,          \* 3000 4001 5000
      24586, 28677, 27147,          \* 600A 7005 6A0B
      32768, 32772, 32776, 32788,   \* 8000 8004 8008 8014
      36864, 37152,                 \* 9000 9120
      41251, 45056, 49407,          \* A123 B000 C0FF
      53248, 53249,                 \* D000 D001
      57502, 57505, 57344,          \* E09E E0A1 E000
      61447, 61450, 61461, 61464,   \* F007 F00A F015 F018
      61470, 61481, 61491,          \* F01E F029 F033
      61525, 61541, 61695, 61706 }  \* F055 F065 F0FF F10A

Roms ==
    {ScenarioRom} \cup {WordBytes(w) : w \in DispatchWords}
      \cup {Zeros(ROM_MAX_SIZE)}

NoCallee == [st |-> "none"]

(* last: the call (op), the instruction word it was given or fetched      *)
(* (opcode), what it returned (ret), the number of Fetch calls it made,    *)
(* the instruction functions it called, in order (executed), and the       *)
(* Quirks argument of a direct call of an instruction function that takes  *)
(* one (mode, "-" otherwise).                                              *)
NoCall == [op |-> "none", opcode |-> 0, ret |-> 0, fetches |-> 0,
           executed |-> <<>>, mode |-> "-"]

Init ==
    /\ chip8 \in {Construct(seed) : seed \in Seeds}
    /\ callee = NoCallee
    /\ run = "ok"
    /\ last = NoCall
    /\ phase \in {[at |-> "constructed", ndebug |-> b] : b \in BOOLEAN}
    /\ runs = 0
    /\ sets = 0
    /\ cycles = 0

DoLoadRom ==
    /\ run = "ok"
    /\ phase.at = "constructed"
    /\ \E rom \in Roms :
         LET r == LoadRom(chip8, rom)
         IN  /\ chip8' = r.m
             /\ run' = r.st
             /\ last' = [NoCall EXCEPT !.op = "LoadRom", !.ret = Len(rom)]
    /\ phase' = [phase EXCEPT !.at = "loaded"]
    /\ UNCHANGED <<callee, runs, sets, cycles>>

Setter(m) ==
    /\ run = "ok"
    /\ phase.at = "loaded"
    /\ sets < MaxSets
    /\ chip8' = m
    /\ sets' = sets + 1
    /\ UNCHANGED <<callee, run, phase, runs, cycles>>

DoSetRegister ==
    \E r \in {R0}, v \in {200} :
        /\ Setter(SetRegister(chip8, r, v))
        /\ last' = [NoCall EXCEPT !.op = "SetRegister", !.opcode = r, !.ret = v]

DoSetKey ==
    \E k \in {3} :
        /\ Setter(SetKey(chip8, k, DOWN))
        /\ last' = [NoCall EXCEPT !.op = "SetKey", !.opcode = k]

DoSetPC ==
    \E v \in {MEMSIZE - 1} :
        /\ Setter(SetPC(chip8, v))
        /\ last' = [NoCall EXCEPT !.op = "SetPC", !.ret = v]

Runner ==
    /\ run = "ok"
    /\ phase.at = "loaded"
    /\ runs < MaxRuns
    /\ runs' = runs + 1
    /\ UNCHANGED <<phase, sets>>

DoFetch ==
    /\ Runner
    /\ LET f == Fetch(chip8)
       IN  /\ chip8' = f.m
           /\ run' = f.st
           /\ last' = [NoCall EXCEPT !.op = "Fetch", !.ret = f.ret,
                                     !.opcode = f.ret, !.fetches = 1]
    /\ UNCHANGED <<callee, cycles>>

DoCycle ==
    /\ Runner
    /\ \E mode \in Quirks :
         LET r == cycle(mode, chip8, phase.ndebug, callee)
         IN  /\ chip8' = r.m
             /\ callee' = r.callee
             /\ run' = r.st
             /\ last' = [NoCall EXCEPT !.op = "cycle", !.opcode = r.opcode,
                                       !.fetches = r.fetches,
                                       !.executed = r.executed]
    /\ cycles' = cycles + 1

DoFetchDecodeExecute ==
    /\ Runner
    /\ \E mode \in Quirks :
         LET r == fetch_decode_execute(mode, chip8, phase.ndebug, callee)
         IN  /\ chip8' = r.m
             /\ callee' = r.callee
             /\ run' = r.st
             /\ last' = [NoCall EXCEPT !.op = "fetch_decode_execute",
                                       !.opcode = r.opcode,
                                       !.fetches = r.fetches,
                                       !.executed = r.executed]
    /\ UNCHANGED cycles

Next ==
    \/ DoLoadRom
    \/ DoSetRegister
    \/ DoSetKey
    \/ DoSetPC
    \/ DoFetch
    \/ DoCycle
    \/ DoFetchDecodeExecute

Spec == Init /\ [][Next]_vars

----------------------------------------------------------------------------
(* The instruction functions called directly, each on machines whose       *)
(* registers R0, R1 and RF were set (system::SetRegister) to values drawn  *)
(* from RegValues, with operands drawn from the sample sets.               *)

RegValues == {0, 1, 200, 255}
XSamples == {0, 1, 15}
YSamples == {0, 1, 15}
NNSamples == {0, 10, 255}
AddrSamples == {0, 15, 564, 768, 4095}

XNN(base) == {base + x * 256 + nn : x \in XSamples, nn \in NNSamples}
XY(base) == {base + x * 256 + y * 16 : x \in XSamples, y \in YSamples}
NNN(base) == {base + a : a \in AddrSamples}
X(base) == {base + x * 256 : x \in XSamples}

(* the opcodes of the documented format of each instruction *)
CallOpcodes(name) ==
    CASE name = "sys_addr" -> NNN(0)
      [] name = "cls" -> {224}
      [] name = "ret" -> {238}
      [] name = "jmp" -> NNN(4096)
      [] name = "call" -> NNN(8192)
      [] name = "skip_eq" -> XNN(12288)
      [] name = "skip_noteq" -> XNN(16384)
      [] name = "skip_xyeq" -> XY(20480)
      [] name = "load" -> XNN(24576)
      [] name = "add" -> XNN(28672)
      [] name = "load_reg" -> XY(32768)
      [] name = "regor" -> XY(32769)
      [] name = "regand" -> XY(32770)
      [] name = "regxor" -> XY(32771)
      [] name = "regaddc" -> XY(32772)
      [] name = "regsubc" -> XY(32773)
      [] name = "regshift_right" -> XY(32774)
      [] name = "regsubc_reverse" -> XY(32775)
      [] name = "regshift_left" -> XY(32782)
      [] name = "skip_regnoteq" -> XY(36864)
      [] name = "load_idxreg_addr" -> NNN(40960)
      [] name = "jmpreg" -> NNN(45056)
      [] name = "genrandom" -> XNN(49152)
      [] name = "draw" -> {b + n : b \in XY(53248), n \in {0, 1}}
      [] name = "skip_ifkeypress" -> X(57502)
      [] name = "skip_ifkeynotpress" -> X(57505)
      [] name = "load_dt_to_reg" -> X(61447)
      [] name = "load_key" -> X(61450)
      [] name = "set_dt" -> X(61461)
      [] name = "set_st" -> X(61464)
      [] name = "regadd_idx" -> X(61470)
      [] name = "sprite" -> X(61481)
      [] name = "decode_bcd" -> X(61491)
      [] name = "load_reg_into_memory" -> X(61525)
      [] name = "load_memory_into_reg" -> X(61541)

TakesMode(name) ==
    name \in {"regshift_right", "regshift_left", "load_reg_into_memory",
              "load_memory_into_reg"}

InitInstr ==
    /\ chip8 \in {[Construct(seed) EXCEPT !.registers[R0] = a,
                                          !.registers[1] = b,
                                          !.registers[RF] = f] :
                    seed \in Seeds, a \in RegValues, b \in RegValues,
                    f \in RegValues}
    /\ callee = NoCallee
    /\ run = "ok"
    /\ last = NoCall
    /\ phase = [at |-> "instructions", ndebug |-> FALSE]
    /\ runs = 0
    /\ sets = 0
    /\ cycles = 0

DoInstruction ==
    /\ run = "ok"
    /\ phase.at = "instructions"
    /\ last.op = "none"
    /\ \E name \in InstructionNames :
         \E opcode \in CallOpcodes(name) :
           \E mode \in (IF TakesMode(name) THEN Quirks ELSE {"-"}) :
             LET r == Apply(name, mode, opcode, chip8)
             IN  /\ chip8' = CallerAfter(chip8, r)
                 /\ callee' = r.m
                 /\ run' = r.st
                 /\ last' = [NoCall EXCEPT !.op = name, !.opcode = opcode,
                                           !.executed = <<name>>,
                                           !.mode = mode]
    /\ UNCHANGED <<phase, runs, sets, cycles>>

SpecInstr == InitInstr /\ [][DoInstruction]_vars

----------------------------------------------------------------------------
(* The opcode utilities applied to words drawn from CodecWords.            *)

NibbleSamples == {0, 1, 7, 8, 15}
CodecWords ==
    {a * 4096 + b * 256 + c * 16 + d :
        a \in NibbleSamples, b \in NibbleSamples,
        c \in NibbleSamples, d \in NibbleSamples}

InitCodec ==
    /\ chip8 \in {Construct(seed) : seed \in Seeds}
    /\ callee = NoCallee
    /\ run = "ok"
    /\ last \in {[NoCall EXCEPT !.op = "word", !.opcode = w] : w \in CodecWords}
    /\ phase = [at |-> "codec", ndebug |-> FALSE]
    /\ runs = 0
    /\ sets = 0
    /\ cycles = 0

DoCodec ==
    /\ phase.at = "codec"
    /\ last.op = "word"
    /\ last' = [last EXCEPT
                  !.op = "codec",
                  !.ret = << fetch_nib1(last.opcode), fetch_nib2(last.opcode),
                             fetch_nib3(last.opcode), fetch_nib4(last.opcode),
                             nibble2byte(fetch_nib3(last.opcode),
                                         fetch_nib4(last.opcode)) >>]
    /\ UNCHANGED <<chip8, callee, run, phase, runs, sets, cycles>>

SpecCodec == InitCodec /\ [][DoCodec]_vars

----------------------------------------------------------------------------
(* The framebuffer instructions, draw and cls, called directly on machines *)
(* whose framebuffer holds one of Framebuffers (written pixel by pixel     *)
(* with system::SetPixel), with R0, R1, RF and the index register set.     *)

Framebuffers ==
    { [i \in DispIdx |-> Zero],
      [i \in DispIdx |-> IF i = 0 THEN foreground ELSE Zero],
      [i \in DispIdx |-> foreground] }
DrawXValues == {0, 62}
DrawYValues == {0, 31}
DrawFlags == {0, 1}
DrawIndexes == {0, 5}
DrawOpcodes ==
    {53248 + x * 256 + y * 16 + n : x \in {0, 1}, y \in {0, 1}, n \in {0, 1, 2}}

InitDisplay ==
    /\ chip8 \in {[Construct(seed) EXCEPT !.display = d,
                                          !.registers[R0] = a,
                                          !.registers[1] = b,
                                          !.registers[RF] = f,
                                          !.index_reg = i] :
                    seed \in Seeds, d \in Framebuffers, a \in DrawXValues,
                    b \in DrawYValues, f \in DrawFlags, i \in DrawIndexes}
    /\ callee = NoCallee
    /\ run = "ok"
    /\ last = NoCall
    /\ phase = [at |-> "display", ndebug |-> FALSE]
    /\ runs = 0
    /\ sets = 0
    /\ cycles = 0

DoDraw ==
    /\ run = "ok"
    /\ phase.at = "display"
    /\ last.op = "none"
    /\ \E opcode \in DrawOpcodes :
         LET r == Apply("draw", "-", opcode, chip8)
         IN  /\ chip8' = CallerAfter(chip8, r)
             /\ callee' = r.m
             /\ run' = r.st
             /\ last' = [NoCall EXCEPT !.op = "draw", !.opcode = opcode,
                                       !.executed = <<"draw">>]
    /\ UNCHANGED <<phase, runs, sets, cycles>>

DoCls ==
    /\ run = "ok"
    /\ phase.at = "display"
    /\ last.op = "none"
    /\ LET r == Apply("cls", "-", 224, chip8)
       IN  /\ chip8' = CallerAfter(chip8, r)
           /\ callee' = r.m
           /\ run' = r.st
           /\ last' = [NoCall EXCEPT !.op = "cls", !.opcode = 224,
                                     !.executed = <<"cls">>]
    /\ UNCHANGED <<phase, runs, sets, cycles>>

NextDisplay == DoDraw \/ DoCls

SpecDisplay == InitDisplay /\ [][NextDisplay]_vars

----------------------------------------------------------------------------
(* load_key called directly, as the dispatcher calls it after the fetch,   *)
(* on machines whose keys in one of KeysDown were set DOWN (system::SetKey)*)
(* and whose program counter stands behind the fetched FX0A word.          *)

KeysDown == {{}, {3}, {3, 7}, {0, 15}, KeyIdx}
KeyRegValues == {0, 9, 200}
KeyPCs == {PROGRAM_LD_ADDR + 2, PROGRAM_LD_ADDR + 6}
LoadKeyOpcodes == {61450 + x * 256 : x \in {0, 1}}

InitKeys ==
    /\ chip8 \in {[Construct(seed) EXCEPT
                      !.keys = [k \in KeyIdx |-> IF k \in d THEN DOWN ELSE UP],
                      !.registers[R0] = a,
                      !.registers[1] = b,
                      !.program_counter = pc] :
                    seed \in Seeds, d \in KeysDown, a \in KeyRegValues,
                    b \in KeyRegValues, pc \in KeyPCs}
    /\ callee = NoCallee
    /\ run = "ok"
    /\ last = NoCall
    /\ phase = [at |-> "keys", ndebug |-> FALSE]
    /\ runs = 0
    /\ sets = 0
    /\ cycles = 0

DoLoadKey ==
    /\ run = "ok"
    /\ phase.at = "keys"
    /\ last.op = "none"
    /\ \E opcode \in LoadKeyOpcodes :
         LET r == Apply("load_key", "-", opcode, chip8)
         IN  /\ chip8' = CallerAfter(chip8, r)
             /\ callee' = r.m
             /\ run' = r.st
             /\ last' = [NoCall EXCEPT !.op = "load_key", !.opcode = opcode,
                                       !.executed = <<"load_key">>]
    /\ UNCHANGED <<phase, runs, sets, cycles>>

SpecKeys == InitKeys /\ [][DoLoadKey]_vars

----------------------------------------------------------------------------
(* system::Push and system::Pop called directly on a machine whose stack   *)
(* already holds depth + 1 return addresses (pushed with Push), for every  *)
(* depth from the empty stack to the full one.                             *)

MaxStackOps == 2
StackValues == {0, 514, 65535}
Filled(m, depth) ==
    [m EXCEPT !.stacktop = depth,
              !.stack = [i \in StackIdx |->
                           IF i <= depth THEN PROGRAM_LD_ADDR + 2 * i ELSE 0]]

InitStack ==
    /\ chip8 \in {Filled(Construct(seed), d) :
                    seed \in Seeds, d \in INIT_STACK_TOP..(STACKSIZE - 1)}
    /\ callee = NoCallee
    /\ run = "ok"
    /\ last = NoCall
    /\ phase = [at |-> "stack", ndebug |-> FALSE]
    /\ runs = 0
    /\ sets = 0
    /\ cycles = 0

DoPush ==
    /\ run = "ok"
    /\ phase.at = "stack"
    /\ runs < MaxStackOps
    /\ \E v \in StackValues :
         /\ IF PushDefined(chip8)
            THEN chip8' = Push(chip8, v) /\ run' = "ok"
            ELSE chip8' = chip8 /\ run' = "undefined"
         /\ last' = [NoCall EXCEPT !.op = "Push", !.opcode = v]
    /\ runs' = runs + 1
    /\ UNCHANGED <<callee, phase, sets, cycles>>

DoPop ==
    /\ run = "ok"
    /\ phase.at = "stack"
    /\ runs < MaxStackOps
    /\ IF PopDefined(chip8)
       THEN /\ chip8' = Pop(chip8)
            /\ run' = "ok"
            /\ last' = [NoCall EXCEPT !.op = "Pop", !.ret = PopValue(chip8)]
       ELSE /\ chip8' = chip8
            /\ run' = "undefined"
            /\ last' = [NoCall EXCEPT !.op = "Pop"]
    /\ runs' = runs + 1
    /\ UNCHANGED <<callee, phase, sets, cycles>>

NextStack == DoPush \/ DoPop

SpecStack == InitStack /\ [][NextStack]_vars

----------------------------------------------------------------------------
(* The timers: the public members SetDT, SetST, DecDT and DecST called on  *)
(* a constructed machine.  DecDT and DecST are the only code that counts a *)
(* timer down; cycle() does not touch the timers.                          *)

MaxTimerOps == 4
TimerValues == {0, 1, 2, 255}

InitTimers ==
    /\ chip8 \in {Construct(seed) : seed \in Seeds}
    /\ callee = NoCallee
    /\ run = "ok"
    /\ last = NoCall
    /\ phase = [at |-> "timers", ndebug |-> FALSE]
    /\ runs = 0
    /\ sets = 0
    /\ cycles = 0

TimerRunner ==
    /\ run = "ok"
    /\ phase.at = "timers"
    /\ runs < MaxTimerOps

DoSetDT ==
    /\ TimerRunner
    /\ \E v \in TimerValues :
         /\ chip8' = SetDT(chip8, v)
         /\ last' = [NoCall EXCEPT !.op = "SetDT", !.opcode = v]
    /\ runs' = runs + 1
    /\ UNCHANGED <<callee, run, phase, sets, cycles>>

DoSetST ==
    /\ TimerRunner
    /\ \E v \in TimerValues :
         /\ chip8' = SetST(chip8, v)
         /\ last' = [NoCall EXCEPT !.op = "SetST", !.opcode = v]
    /\ runs' = runs + 1
    /\ UNCHANGED <<callee, run, phase, sets, cycles>>

DoDecDT ==
    /\ TimerRunner
    /\ chip8' = DecDT(chip8)
    /\ last' = [NoCall EXCEPT !.op = "DecDT"]
    /\ runs' = runs + 1
    /\ UNCHANGED <<callee, run, phase, sets, cycles>>

DoDecST ==
    /\ TimerRunner
    /\ chip8' = DecST(chip8)
    /\ last' = [NoCall EXCEPT !.op = "DecST"]
    /\ runs' = runs + 1
    /\ UNCHANGED <<callee, run, phase, sets, cycles>>

NextTimers == DoSetDT \/ DoSetST \/ DoDecDT \/ DoDecST

SpecTimers == InitTimers /\ [][NextTimers]_vars

----------------------------------------------------------------------------
(* A long run: a machine with a ROM loaded at 0x200 on which the body of   *)
(* the closure has already run Warmups times, and then runs up to          *)
(* MaxRunSteps times more.  The ROMs hold one jmp, call, jmpreg, skip or   *)
(* keywait instruction each; the memory behind them is the zero bytes the  *)
(* constructor left.                                                       *)

MaxRunSteps == 12
Warmups == {0, 1784}
RunRoms ==
    {WordBytes(w) : w \in {4608, 8704, 45568, 12288, 61450}}
      \cup {ScenarioRom}

(* One execution of the closure body after the outcome r0, unless r0 did   *)
(* not return.                                                             *)
RunCycle(r0, mode, ndebug) ==
    CHOOSE out \in
        UNION {IF r.st # "ok" THEN {r}
               ELSE {[m |-> f.m, callee |-> f.callee, st |-> f.st] :
                       f \in {fetch_decode_execute(mode, r.m, ndebug,
                                                   r.callee)}} :
                 r \in {r0}} : TRUE

(* k executions of the closure body, one after the other, starting from   *)
(* the outcome r0 and stopping at the first one that does not return.      *)
RECURSIVE RunCycles(_, _, _, _)
RunCycles(r0, k, mode, ndebug) ==
    IF k = 0 THEN r0
    ELSE IF k = 1 THEN RunCycle(r0, mode, ndebug)
    ELSE CHOOSE out \in
             {RunCycles(h, k - (k \div 2), mode, ndebug) :
                h \in {RunCycles(r0, k \div 2, mode, ndebug)}} : TRUE

InitRun ==
    /\ \E seed \in Seeds, rom \in RunRoms, k \in Warmups, mode \in Quirks,
          b \in BOOLEAN :
         \E l \in {LoadRom(Construct(seed), rom)} :
           \E r \in {RunCycles([m |-> l.m, callee |-> NoCallee,
                                 st |-> l.st], k, mode, b)} :
             /\ r.st = "ok"
             /\ chip8 = r.m
             /\ callee = r.callee
             /\ phase = [at |-> "running", ndebug |-> b]
    /\ run = "ok"
    /\ last = NoCall
    /\ runs = 0
    /\ sets = 0
    /\ cycles = 0

DoRunCycle ==
    /\ run = "ok"
    /\ phase.at = "running"
    /\ runs < MaxRunSteps
    /\ \E mode \in Quirks :
         LET r == fetch_decode_execute(mode, chip8, phase.ndebug, callee)
         IN  /\ chip8' = r.m
             /\ callee' = r.callee
             /\ run' = r.st
             /\ last' = [NoCall EXCEPT !.op = "fetch_decode_execute",
                                       !.opcode = r.opcode,
                                       !.fetches = r.fetches,
                                       !.executed = r.executed]
    /\ runs' = runs + 1
    /\ UNCHANGED <<phase, sets, cycles>>

NextRun == DoRunCycle

SpecRun == InitRun /\ [][NextRun]_vars

----------------------------------------------------------------------------
(* The block transfers called directly on machines whose index register    *)
(* was set (system::SetIndexRegister) to values drawn from BlockIndexes.    *)

BlockIndexes == {0, 768, 4080, 4091, 4095, 4096, 65535}
BlockNames == {"load_reg_into_memory", "load_memory_into_reg"}

InitBlock ==
    /\ chip8 \in {SetIndexRegister(
                     SetRegister(SetRegister(Construct(seed), R0, a), 1, b),
                     i) :
                    seed \in Seeds, a \in {1, 200}, b \in {0, 255},
                    i \in BlockIndexes}
    /\ callee = NoCallee
    /\ run = "ok"
    /\ last = NoCall
    /\ phase = [at |-> "block", ndebug |-> FALSE]
    /\ runs = 0
    /\ sets = 0
    /\ cycles = 0

DoBlock ==
    /\ run = "ok"
    /\ phase.at = "block"
    /\ last.op = "none"
    /\ \E name \in BlockNames :
         \E opcode \in CallOpcodes(name) :
           \E mode \in Quirks :
             LET r == Apply(name, mode, opcode, chip8)
             IN  /\ chip8' = CallerAfter(chip8, r)
                 /\ callee' = r.m
                 /\ run' = r.st
                 /\ last' = [NoCall EXCEPT !.op = name, !.opcode = opcode,
                                           !.executed = <<name>>,
                                           !.mode = mode]
    /\ UNCHANGED <<phase, runs, sets, cycles>>

SpecBlock == InitBlock /\ [][DoBlock]_vars

----------------------------------------------------------------------------
(* system::operator[] called on a machine with a ROM loaded, with          *)
(* arguments drawn from SubscriptArgs; last.ret is the byte the returned   *)
(* reference denotes.                                                      *)

SubscriptArgs == (-8..100) \cup {512, 513, 514, 515} \cup (4090..4100)

InitSubscript ==
    /\ chip8 \in {LoadRom(Construct(seed), ScenarioRom).m : seed \in Seeds}
    /\ callee = NoCallee
    /\ run = "ok"
    /\ last = NoCall
    /\ phase = [at |-> "subscript", ndebug |-> FALSE]
    /\ runs = 0
    /\ sets = 0
    /\ cycles = 0

DoSubscript ==
    /\ run = "ok"
    /\ phase.at = "subscript"
    /\ \E i \in SubscriptArgs :
         /\ run' = (IF Subscript(i) # "ok" THEN Subscript(i)
                    ELSE IF i \notin MemIdx THEN "undefined"
                    ELSE "ok")
         /\ last' = [NoCall EXCEPT
                       !.op = "operator[]", !.opcode = i,
                       !.ret = IF Subscript(i) = "ok" /\ i \in MemIdx
                               THEN chip8.memory[i] ELSE 0]
    /\ UNCHANGED <<chip8, callee, phase, runs, sets, cycles>>

SpecSubscript == InitSubscript /\ [][DoSubscript]_vars

----------------------------------------------------------------------------
(* The closure body run on machines with one instruction word loaded at    *)
(* 0x200 and with R0 and the two timers set (SetRegister, SetDT, SetST)    *)
(* before the run.                                                         *)

MaxFrameSteps == 2
FrameTimers == {<<0, 0>>, <<7, 3>>}
FrameRegValues == {0, 9}

InitFrame ==
    /\ chip8 \in {SetST(SetDT(SetRegister(LoadRom(Construct(seed),
                                                  WordBytes(w)).m, R0, a),
                               t[1]), t[2]) :
                    seed \in Seeds, w \in DispatchWords,
                    a \in FrameRegValues, t \in FrameTimers}
    /\ callee = NoCallee
    /\ run = "ok"
    /\ last = NoCall
    /\ phase \in {[at |-> "frame", ndebug |-> b] : b \in BOOLEAN}
    /\ runs = 0
    /\ sets = 0
    /\ cycles = 0

DoFrameCycle ==
    /\ run = "ok"
    /\ phase.at = "frame"
    /\ runs < MaxFrameSteps
    /\ \E mode \in Quirks :
         LET r == fetch_decode_execute(mode, chip8, phase.ndebug, callee)
         IN  /\ chip8' = r.m
             /\ callee' = r.callee
             /\ run' = r.st
             /\ last' = [NoCall EXCEPT !.op = "fetch_decode_execute",
                                       !.opcode = r.opcode,
                                       !.fetches = r.fetches,
                                       !.executed = r.executed]
    /\ runs' = runs + 1
    /\ UNCHANGED <<phase, sets, cycles>>

SpecFrame == InitFrame /\ [][DoFrameCycle]_vars

----------------------------------------------------------------------------
(* The properties.  N1..N4 are the four nibbles of an instruction word as  *)
(* the documentation numbers them, most significant first.                 *)

N1(w) == (w \div 4096) % 16
N2(w) == (w \div 256) % 16
N3(w) == (w \div 16) % 16
N4(w) == w % 16
LowByte(w) == w % 256

IsFDE == last.op = "fetch_decode_execute"


(* the operation the documentation gives for a primary nibble that has     *)
(* exactly one                                                             *)
Documented(n) ==
    CASE n = 1 -> "jmp"
      [] n = 2 -> "call"
      [] n = 3 -> "skip_eq"
      [] n = 4 -> "skip_noteq"
      [] n = 5 -> "skip_xyeq"
      [] n = 6 -> "load"
      [] n = 7 -> "add"
      [] n = 9 -> "skip_regnoteq"
      [] n = 10 -> "load_idxreg_addr"
      [] n = 11 -> "jmpreg"
      [] n = 12 -> "genrandom"
      [] n = 13 -> "draw"
      [] OTHER -> ""

(* C1: every instruction operation applies its mutations to the caller's   *)
(* machine: when the dispatcher has run one operation, the caller's        *)
(* machine is in the state that operation left its machine in.             *)
C1_CallerSeesMutations ==
    (IsFDE /\ run = "ok" /\ last.executed = <<Documented(N1(last.opcode))>>)
    => chip8 = callee

(* C2: one call of cycle() performs exactly one fetch and executes exactly *)
(* one decoded operation.                                                  *)
C2_OneFetchDecodeExecutePerCycle ==
    last.op = "cycle" => (last.fetches = 1 /\ Len(last.executed) = 1)

(* C3: decoding a word executes at most one instruction operation.         *)
C3_NoFallThrough ==
    IsFDE => Len(last.executed) <= 1

(* C4: each primary nibble in {1..7, 9, A..D} is dispatched to the one     *)
(* operation documented for it, and 9XY0 (skip_regnoteq) leaves the index  *)
(* register as it was.                                                     *)
C4_OneToOneDispatch ==
    (IsFDE /\ N1(last.opcode) \in ((1..7) \cup {9} \cup (10..13))
       /\ (N1(last.opcode) = 9 => N4(last.opcode) = 0))
    => /\ last.executed = <<Documented(N1(last.opcode))>>
       /\ (N1(last.opcode) = 9 /\ run = "ok"
             => callee.index_reg = chip8.index_reg)

(* C5: a word with an unrecognized secondary key is a no-op: the program   *)
(* counter advances by 2, nothing else changes, the machine does not fault *)
Unrecognized(w) ==
    \/ N1(w) = 0 /\ LowByte(w) \notin {224, 238}
    \/ N1(w) = 8 /\ N4(w) \notin ((0..7) \cup {14})
    \/ N1(w) = 14 /\ LowByte(w) \notin {158, 161}
    \/ N1(w) = 15 /\ LowByte(w) \notin {7, 10, 21, 24, 30, 41, 51, 85, 101}

C5_UnrecognizedIsNoOp ==
    [][ (last'.op = "fetch_decode_execute" /\ runs' = runs + 1
           /\ FetchDefined(chip8) /\ Unrecognized(last'.opcode))
        => /\ run' = "ok"
           /\ chip8' = [chip8 EXCEPT !.program_counter =
                                        chip8.program_counter + 2] ]_vars

(* C6: fetch_nib1..fetch_nib4 return the nibbles N1..N4 of the word, and   *)
(* nibble2byte(fetch_nib3(W), fetch_nib4(W)) is W mod 256.                 *)
C6_NibblesAndByte ==
    last.op = "codec"
    => last.ret = << N1(last.opcode), N2(last.opcode), N3(last.opcode),
                     N4(last.opcode), last.opcode % 256 >>

(* C7: executing 1NNN leaves PC = NNN and executing ANNN leaves the index  *)
(* register = NNN.                                                         *)
C7_AddressOperand ==
    /\ (last.op = "jmp" /\ N1(last.opcode) = 1)
         => callee.program_counter = last.opcode % 4096
    /\ (last.op = "load_idxreg_addr" /\ N1(last.opcode) = 10)
         => callee.index_reg = last.opcode % 4096

(* C8: Fetch returns memory[PC]*256 + memory[PC+1], read at the PC held    *)
(* before the call, advances PC by exactly 2 and changes nothing else (for *)
(* a PC whose two bytes lie inside the memory); the closure's fetch reads  *)
(* the same word.                                                          *)
WordAt(m) ==
    m.memory[m.program_counter] * 256 + m.memory[m.program_counter + 1]

C8_Fetch ==
    [][ /\ (last'.op = "Fetch" /\ runs' = runs + 1 /\ FetchDefined(chip8))
          => /\ last'.ret = WordAt(chip8)
             /\ chip8' = [chip8 EXCEPT !.program_counter =
                                          chip8.program_counter + 2]
             /\ run' = "ok"
             /\ callee' = callee
        /\ (last'.op = "fetch_decode_execute" /\ runs' = runs + 1
              /\ FetchDefined(chip8))
          => /\ last'.opcode = WordAt(chip8)
             /\ chip8'.program_counter = chip8.program_counter + 2 ]_vars

C8_Witness ==
    /\ last.op = "Fetch"
    /\ last.ret = 24586
    /\ chip8.program_counter = PROGRAM_LD_ADDR + 2
    /\ run = "ok"

(* C9: from a freshly constructed machine with a ROM of straight-line      *)
(* 6XNN / 7XNN instructions at 0x200, after k cycles PC = 0x200 + 2k and   *)
(* the registers hold what the sequence computes with 8-bit wraparound.    *)
RomWord(m, i) ==
    m.memory[PROGRAM_LD_ADDR + 2 * i] * 256
      + m.memory[PROGRAM_LD_ADDR + 2 * i + 1]

RECURSIVE Computed(_, _)
Computed(m, k) ==
    IF k = 0 THEN [r \in 0..15 |-> 0]
    ELSE LET regs == Computed(m, k - 1)
             w == RomWord(m, k - 1)
         IN  IF N1(w) = 6
             THEN [regs EXCEPT ![N2(w)] = LowByte(w)]
             ELSE [regs EXCEPT ![N2(w)] = (regs[N2(w)] + LowByte(w)) % 256]

StraightLine(m, k) ==
    \A i \in 0..(k - 1) : N1(RomWord(m, i)) \in {6, 7}

C9_StraightLineRom ==
    (phase.at = "loaded" /\ run = "ok" /\ sets = 0 /\ cycles >= 1
       /\ runs = cycles /\ StraightLine(chip8, cycles))
    => /\ chip8.program_counter = PROGRAM_LD_ADDR + 2 * cycles
       /\ chip8.registers = Computed(chip8, cycles)

(* C10: regaddc 8XY4, with a = RX and b = RY before the instruction (X, Y  *)
(* other than 0xF): afterwards RF = 1 iff a + b > 255, else 0, and         *)
(* RX = (a + b) mod 256.                                                   *)
C10_Regaddc ==
    (last.op = "regaddc" /\ N2(last.opcode) # 15 /\ N3(last.opcode) # 15)
    => LET a == chip8.registers[N2(last.opcode)]
           b == chip8.registers[N3(last.opcode)]
       IN  /\ run = "ok"
           /\ callee.registers[RF] = (IF a + b > 255 THEN 1 ELSE 0)
           /\ callee.registers[N2(last.opcode)] = (a + b) % 256

(* C11: regsubc 8XY5, with a = RX and b = RY before the instruction (X, Y  *)
(* other than 0xF): afterwards RF = 1 iff a > b, else 0, and               *)
(* RX = (a - b) mod 256.                                                   *)
C11_Regsubc ==
    (last.op = "regsubc" /\ N2(last.opcode) # 15 /\ N3(last.opcode) # 15)
    => LET a == chip8.registers[N2(last.opcode)]
           b == chip8.registers[N3(last.opcode)]
       IN  /\ run = "ok"
           /\ callee.registers[RF] = (IF a > b THEN 1 ELSE 0)
           /\ callee.registers[N2(last.opcode)] = (256 + a - b) % 256

(* C12: regsubc_reverse 8XY7, with a = RX and b = RY before the            *)
(* instruction (X, Y other than 0xF): afterwards RX = (b - a) mod 256,     *)
(* RF = 1 iff a < b, else 0, and RY is unchanged when Y differs from X.    *)
C12_RegsubcReverse ==
    (last.op = "regsubc_reverse" /\ N2(last.opcode) # 15
       /\ N3(last.opcode) # 15)
    => LET a == chip8.registers[N2(last.opcode)]
           b == chip8.registers[N3(last.opcode)]
       IN  /\ run = "ok"
           /\ callee.registers[N2(last.opcode)] = (256 + b - a) % 256
           /\ callee.registers[RF] = (IF a < b THEN 1 ELSE 0)
           /\ (N3(last.opcode) # N2(last.opcode)
                 => callee.registers[N3(last.opcode)] = b)

(* C13: the shifts 8XY6 and 8XYE follow the quirk (X, Y other than 0xF):   *)
(* in mode COWGOD the source is the old RX, in mode MATT the old RY; RX    *)
(* becomes the source shifted by one bit, truncated to 8 bits, and RF the  *)
(* bit shifted out (bit 0 for the right shift, bit 7 for the left shift).  *)
ShiftSource(m, mode, w) ==
    IF mode = "MATT" THEN m.registers[N3(w)] ELSE m.registers[N2(w)]

C13_ShiftQuirks ==
    (last.op \in {"regshift_right", "regshift_left"}
       /\ N2(last.opcode) # 15 /\ N3(last.opcode) # 15)
    => LET src == ShiftSource(chip8, last.mode, last.opcode)
       IN  /\ run = "ok"
           /\ last.op = "regshift_right"
                => /\ callee.registers[N2(last.opcode)] = src \div 2
                   /\ callee.registers[RF] = src % 2
           /\ last.op = "regshift_left"
                => /\ callee.registers[N2(last.opcode)] = (src * 2) % 256
                   /\ callee.registers[RF] = src \div 128

(* What the documentation says of draw DXYN on machine m: the sprite's     *)
(* corner, whether the sprite covers framebuffer cell idx with a set bit   *)
(* (bit 7-c of memory[I + r] for the cell at column x + c, row y + r), and *)
(* whether a pixel is on.                                                  *)
DrawX(m, w) == m.registers[N2(w)] % DISPW
DrawY(m, w) == m.registers[N3(w)] % DISPH
On(m, idx) == m.display[idx] # Zero
Toggled(m, w, idx) ==
    LET c == (idx % DISPW) - DrawX(m, w)
        r == (idx \div DISPW) - DrawY(m, w)
    IN  /\ c \in 0..7
        /\ r \in 0..(N4(w) - 1)
        /\ BitAnd(m.memory[m.index_reg + r], Shr(128, c)) # 0
IsDraw ==
    last.op = "draw" /\ N2(last.opcode) # 15 /\ N3(last.opcode) # 15

(* C14: draw toggles exactly the framebuffer cells the sprite covers with  *)
(* a set bit inside the display and leaves every other cell as it was; a   *)
(* single row 0xF0 drawn at (0,0) on a clear framebuffer turns on          *)
(* (0,0)..(3,0), leaves (4,0)..(7,0) off and leaves RF = 0.                *)
C14_DrawToggles ==
    IsDraw
    => /\ run = "ok"
       /\ \A idx \in DispIdx :
            On(callee, idx) = (On(chip8, idx) # Toggled(chip8, last.opcode, idx))
       /\ (/\ N4(last.opcode) = 1
           /\ DrawX(chip8, last.opcode) = 0
           /\ DrawY(chip8, last.opcode) = 0
           /\ chip8.memory[chip8.index_reg] = 240
           /\ \A idx \in DispIdx : ~On(chip8, idx))
          => /\ \A idx \in 0..3 : On(callee, idx)
             /\ \A idx \in 4..7 : ~On(callee, idx)
             /\ callee.registers[RF] = 0

(* C15: after draw, RF = 1 iff some pixel that was on was toggled off, and *)
(* RF = 0 otherwise, whatever RF held before.                              *)
C15_DrawCollisionFlag ==
    IsDraw
    => /\ run = "ok"
       /\ callee.registers[RF] =
            (IF \E idx \in DispIdx :
                  On(chip8, idx) /\ Toggled(chip8, last.opcode, idx)
             THEN 1 ELSE 0)

(* C16: for every RX, RY and N draw stays inside the framebuffer and never *)
(* modifies a pixel left of column RX & 63 or above row RY & 31.           *)
C16_DrawClips ==
    IsDraw
    => /\ run # "undefined"
       /\ DOMAIN callee.display = DispIdx
       /\ \A idx \in DispIdx :
            callee.display[idx] # chip8.display[idx]
            => /\ idx % DISPW >= DrawX(chip8, last.opcode)
               /\ idx \div DISPW >= DrawY(chip8, last.opcode)

(* C17: after cls every one of the 64*32 framebuffer cells is off,         *)
(* whatever the framebuffer held before.                                   *)
C17_ClsClearsAll ==
    last.op = "cls"
    => /\ run = "ok"
       /\ \A idx \in DispIdx : ~On(callee, idx)

(* C18: while all 16 keys are UP, a cycle that executes load_key FX0A ends *)
(* with PC back at the address of that instruction and every register as  *)
(* it was, and returns to the caller, so that the word is fetched again.   *)
IsLoadKey(w) == N1(w) = 15 /\ LowByte(w) = 10
AllKeysUp(m) == \A k \in KeyIdx : m.keys[k] = UP

C18_KeywaitBusyWait ==
    [][ (last'.op = "fetch_decode_execute" /\ runs' = runs + 1
           /\ FetchDefined(chip8) /\ IsLoadKey(WordAt(chip8))
           /\ AllKeysUp(chip8))
        => /\ run' = "ok"
           /\ chip8'.program_counter = chip8.program_counter
           /\ chip8'.registers = chip8.registers ]_vars

(* C19: with at least one key DOWN, load_key FX0A (entered with PC 2 past  *)
(* the instruction, as after its fetch) leaves PC exactly 2 past the       *)
(* instruction, however many keys are down, and RX = the lowest index      *)
(* among the keys that are DOWN.                                           *)
LowestDown(m) == CHOOSE k \in KeyIdx :
                    m.keys[k] = DOWN /\ \A j \in 0..(k - 1) : m.keys[j] = UP

C19_KeyPressed ==
    (last.op = "load_key" /\ phase.at = "keys" /\ ~AllKeysUp(chip8))
    => /\ run = "ok"
       /\ callee.program_counter = chip8.program_counter
       /\ callee.registers[N2(last.opcode)] = LowestDown(chip8)

(* C20: block store FX55 copies R0..RX (inclusive) to memory[I..I+X] and   *)
(* block load FX65 copies memory[I..I+X] into R0..RX, for every X, leaving *)
(* the registers above RX and the memory outside [I, I+X] as they were; a  *)
(* store followed by a load at the same I restores R0..RX.                 *)
LoadBack(m, mode, w, I) ==
    load_memory_into_reg(mode, w + 16,
        [m EXCEPT !.registers = [r \in RegIdx |-> 0], !.index_reg = I])

C20_BlockStoreLoad ==
    LET XX == N2(last.opcode)
        I == chip8.index_reg
    IN  /\ last.op = "load_reg_into_memory"
           => /\ run = "ok"
              /\ \A a \in MemIdx :
                   callee.memory[a] =
                     (IF a \in I..(I + XX) THEN chip8.registers[a - I]
                      ELSE chip8.memory[a])
              /\ callee.registers = chip8.registers
              /\ LET back == LoadBack(callee, last.mode, last.opcode, I)
                 IN  /\ back.st = "ok"
                     /\ \A r \in 0..XX :
                          back.m.registers[r] = chip8.registers[r]
        /\ last.op = "load_memory_into_reg"
           => /\ run = "ok"
              /\ \A r \in RegIdx :
                   callee.registers[r] =
                     (IF r <= XX THEN chip8.memory[I + r]
                      ELSE chip8.registers[r])
              /\ callee.memory = chip8.memory

(* C21: after FX55 or FX65 the index register is the old I + X + 1 in mode *)
(* MATT and the old I in mode COWGOD.                                      *)
C21_BlockIndexQuirk ==
    last.op \in {"load_reg_into_memory", "load_memory_into_reg"}
    => /\ run = "ok"
       /\ callee.index_reg =
            (IF last.mode = "MATT"
             THEN chip8.index_reg + N2(last.opcode) + 1
             ELSE chip8.index_reg)

(* C22: decode_bcd FX33 with v = RX: afterwards memory[I], memory[I+1] and *)
(* memory[I+2] are the hundreds, tens and ones digits of v, and RX, I and  *)
(* all other memory are as before; 255 gives 2, 5, 5.                      *)
C22_DecodeBcd ==
    last.op = "decode_bcd"
    => LET v == chip8.registers[N2(last.opcode)]
           I == chip8.index_reg
       IN  /\ run = "ok"
           /\ \A a \in MemIdx :
                callee.memory[a] =
                  (IF a = I THEN v \div 100
                   ELSE IF a = I + 1 THEN (v \div 10) % 10
                   ELSE IF a = I + 2 THEN v % 10
                   ELSE chip8.memory[a])
           /\ callee.registers = chip8.registers
           /\ callee.index_reg = I
           /\ v = 255 => <<callee.memory[I], callee.memory[I + 1],
                           callee.memory[I + 2]>> = <<2, 5, 5>>

(* C23: on a stack that is not full, Push(v) immediately followed by Pop() *)
(* returns v and leaves the top-of-stack index at its value before the     *)
(* Push, for every starting depth from the empty stack.                    *)
C23_StackRoundTrip ==
    [][ /\ (last'.op = "Push" /\ runs' = runs + 1 /\ PushDefined(chip8))
          => /\ run' = "ok"
             /\ chip8'.stacktop = chip8.stacktop + 1
        /\ (last.op = "Push" /\ run = "ok" /\ last'.op = "Pop"
              /\ runs' = runs + 1)
          => /\ run' = "ok"
             /\ last'.ret = last.opcode
             /\ chip8'.stacktop = chip8.stacktop - 1 ]_vars

C23_Witness ==
    /\ last.op = "Pop"
    /\ run = "ok"
    /\ last.ret = 65535
    /\ chip8.stacktop = STACKSIZE - 2

(* C24: a cycle that executes call 2NNN at address A pushes A + 2 and      *)
(* leaves PC = NNN; a cycle that executes ret 00EE on a non-empty stack    *)
(* sets PC to the address on top of the stack and takes it off, so that    *)
(* returns resume in last-in-first-out order and the stack index after the *)
(* matching ret is the one before the call.                                *)
IsFDEStep == last'.op = "fetch_decode_execute" /\ runs' = runs + 1

C24_CallRet ==
    [][ /\ (IsFDEStep /\ FetchDefined(chip8) /\ N1(WordAt(chip8)) = 2
              /\ PushDefined(chip8))
          => /\ run' = "ok"
             /\ chip8'.program_counter = WordAt(chip8) % 4096
             /\ chip8'.stacktop = chip8.stacktop + 1
             /\ chip8'.stack[chip8'.stacktop] = chip8.program_counter + 2
        /\ (IsFDEStep /\ FetchDefined(chip8) /\ WordAt(chip8) = 238
              /\ PopDefined(chip8))
          => /\ run' = "ok"
             /\ chip8'.program_counter = chip8.stack[chip8.stacktop]
             /\ chip8'.stacktop = chip8.stacktop - 1 ]_vars

(* C25: a timer tick (DecDT, DecST) counts a timer down by one only when   *)
(* it is non-zero and leaves a timer that is zero at zero; a delay timer   *)
(* set to 2 and ticked three times is 0.                                   *)
CountDown(t) == IF t > 0 THEN t - 1 ELSE 0

C25_TimerTick ==
    [][ /\ (last'.op = "DecDT" /\ runs' = runs + 1)
          => chip8' = [chip8 EXCEPT !.delay_timer = CountDown(chip8.delay_timer)]
        /\ (last'.op = "DecST" /\ runs' = runs + 1)
          => chip8' = [chip8 EXCEPT !.sound_timer = CountDown(chip8.sound_timer)]
      ]_vars

(* C26: a cycle that executes a conditional skip (3XNN, 4XNN, 5XY0, 9XY0,  *)
(* EX9E, EXA1) at address A ends with PC = A + 4 iff the condition holds   *)
(* on the state before the instruction and PC = A + 2 otherwise, with      *)
(* registers, memory, stack, timers and framebuffer unchanged.             *)
IsSkip(w) ==
    \/ N1(w) \in {3, 4}
    \/ N1(w) \in {5, 9} /\ N4(w) = 0
    \/ N1(w) = 14 /\ LowByte(w) \in {158, 161}

SkipCondition(m, w) ==
    LET vx == m.registers[N2(w)]
        vy == m.registers[N3(w)]
    IN  CASE N1(w) = 3 -> vx = LowByte(w)
          [] N1(w) = 4 -> vx # LowByte(w)
          [] N1(w) = 5 -> vx = vy
          [] N1(w) = 9 -> vx # vy
          [] N1(w) = 14 /\ LowByte(w) = 158 -> m.keys[vx] = DOWN
          [] N1(w) = 14 /\ LowByte(w) = 161 -> m.keys[vx] = UP

C26_ConditionalSkips ==
    [][ (IsFDEStep /\ FetchDefined(chip8) /\ IsSkip(WordAt(chip8))
           /\ (N1(WordAt(chip8)) = 14
                 => chip8.registers[N2(WordAt(chip8))] \in KeyIdx))
        => /\ run' = "ok"
           /\ chip8' = [chip8 EXCEPT !.program_counter =
                          chip8.program_counter +
                            (IF SkipCondition(chip8, WordAt(chip8))
                             THEN 4 ELSE 2)] ]_vars

(* C27: LoadRom accepts every (existing, regular, readable) file of at     *)
(* most ROM_MAX_SIZE bytes, one of exactly ROM_MAX_SIZE bytes included,    *)
(* and fails for every larger one; an accepted ROM occupies memory from    *)
(* 0x200 on verbatim, stays inside the memory and leaves the rest of the   *)
(* memory, the font included, unchanged.                                   *)
Loaded(m, rom) ==
    [m EXCEPT !.memory =
       [a \in MemIdx |->
          IF a \in PROGRAM_LD_ADDR..(PROGRAM_LD_ADDR + Len(rom) - 1)
          THEN rom[a - PROGRAM_LD_ADDR + 1]
          ELSE m.memory[a]]]

C27_LoadRom ==
    [][ last'.op = "LoadRom"
        => \E rom \in Roms :
             /\ Len(rom) = last'.ret
             /\ IF Len(rom) <= ROM_MAX_SIZE
                THEN /\ run' = "ok"
                     /\ PROGRAM_LD_ADDR + Len(rom) <= MEMSIZE
                     /\ chip8' = Loaded(chip8, rom)
                ELSE run' = "exit" /\ chip8' = chip8 ]_vars

(* C28: for every flag-producing instruction (regaddc, regsubc,            *)
(* regsubc_reverse, regshift_right, regshift_left), also when X = 0xF or   *)
(* Y = 0xF (the other operands are C10..C13), RF after the instruction is  *)
(* the flag computed from the operand values held before the instruction.  *)
FlagOps ==
    {"regaddc", "regsubc", "regsubc_reverse", "regshift_right",
     "regshift_left"}

FlagOf(op, mode, a, b) ==
    CASE op = "regaddc" -> IF a + b > 255 THEN 1 ELSE 0
      [] op = "regsubc" -> IF a > b THEN 1 ELSE 0
      [] op = "regsubc_reverse" -> IF a < b THEN 1 ELSE 0
      [] op = "regshift_right" -> (IF mode = "MATT" THEN b ELSE a) % 2
      [] op = "regshift_left" -> (IF mode = "MATT" THEN b ELSE a) \div 128

C28_FlagFromOldOperands ==
    (last.op \in FlagOps /\ phase.at = "instructions"
       /\ (N2(last.opcode) = 15 \/ N3(last.opcode) = 15))
    => /\ run = "ok"
       /\ callee.registers[RF] =
            FlagOf(last.op, last.mode, chip8.registers[N2(last.opcode)],
                   chip8.registers[N3(last.opcode)])

(* C29: Push and Pop only ever index the stack array inside                *)
(* [0, STACKSIZE-1]: a Push on a full stack and a Pop on an empty one are  *)
(* defined and touch nothing outside the stack array.                      *)
C29_StackInBounds ==
    (phase.at = "stack" /\ last.op \in {"Push", "Pop"})
    => /\ run = "ok"
       /\ chip8.stacktop \in INIT_STACK_TOP..(STACKSIZE - 1)

(* C30: while the closure body runs on a machine with a ROM loaded at      *)
(* 0x200, the program counter is even and 0x200 <= PC < MEMSIZE at every   *)
(* fetch, so Fetch never reads memory at an index >= MEMSIZE.              *)
C30_PCInRange ==
    phase.at = "running"
    => /\ run = "ok"
       /\ chip8.program_counter % 2 = 0
       /\ chip8.program_counter >= PROGRAM_LD_ADDR
       /\ chip8.program_counter < MEMSIZE

(* The memory subscripts std::copy_n walks in a block transfer: count      *)
(* elements from memory.begin() + I.                                       *)
CopyMemoryRange(Chip8, opcode) ==
    {GetIndexRegister(Chip8) + i : i \in 0..(fetch_nib2(opcode) - 1)}

(* C31: block store FX55 and block load FX65 never read or write a memory  *)
(* index >= MEMSIZE, for every value of the index register and every X.    *)
C31_BlockInBounds ==
    (phase.at = "block" /\ last.op \in BlockNames)
    => CopyMemoryRange(chip8, last.opcode) \subseteq MemIdx

(* C32: system::operator[](i) returns a reference to memory[i] for every i *)
(* with 0 <= i < MEMSIZE and terminates the process only when i is         *)
(* negative or i >= MEMSIZE.                                               *)
C32_Subscript ==
    (phase.at = "subscript" /\ last.op = "operator[]")
    => IF last.opcode \in MemIdx
       THEN run = "ok" /\ last.ret = chip8.memory[last.opcode]
       ELSE run = "exit"

(* C33: no fetch-decode-execute step decrements a timer.  Across a step    *)
(* that returns, the machine's delay_timer and sound_timer are unchanged   *)
(* unless the instruction run is set_dt, respectively set_st, and the      *)
(* same holds for the machine object the instruction function worked on:  *)
(* every other instruction, load_dt_to_reg included, leaves both timers    *)
(* as they were before the step.                                           *)
LastExecuted(l) ==
    IF l.executed = <<>> THEN "" ELSE l.executed[Len(l.executed)]

Ran(l, name) == \E i \in 1..Len(l.executed) : l.executed[i] = name

C33_TimersFrame ==
    [][ (phase.at = "frame" /\ last'.op = "fetch_decode_execute"
           /\ runs' = runs + 1 /\ run' = "ok")
        => /\ chip8'.delay_timer # chip8.delay_timer
                => Ran(last', "set_dt")
           /\ chip8'.sound_timer # chip8.sound_timer
                => Ran(last', "set_st")
           /\ last'.executed # <<>>
                => /\ callee'.delay_timer # chip8.delay_timer
                        => LastExecuted(last') = "set_dt"
                   /\ callee'.sound_timer # chip8.sound_timer
                        => LastExecuted(last') = "set_st" ]_vars

C33_Witness ==
    /\ phase.at = "frame"
    /\ run = "ok"
    /\ last.op = "fetch_decode_execute"
    /\ last.executed = <<"load_dt_to_reg">>
    /\ chip8.delay_timer = 7
    /\ callee.delay_timer = 7
    /\ callee.registers[R0] = 7
    /\ callee.sound_timer = 3

(* C34: genrandom CXNN draws from the machine's own generator: across an   *)
(* execution the generator of the caller's machine advances to its next    *)
(* state, and RX is that next output d ANDed with NN, so RX has no bit set *)
(* outside NN.                                                             *)
C34_Genrandom ==
    [][ (phase.at = "instructions" /\ last'.op = "genrandom")
        => LET d == RandDraw(chip8.engine)
               XX == N2(last'.opcode)
               nn == LowByte(last'.opcode)
           IN  /\ run' = "ok"
               /\ chip8'.engine = d.engine
               /\ callee'.registers[XX] = BitAnd(U8(d.value), nn)
               /\ BitAnd(callee'.registers[XX], 255 - nn) = 0 ]_vars

====
